---- MODULE Spec2Model ----
(***************************************************************************)
(* Model of the ESLint rule no-cousin-imports (src/src/no-cousin-imports.js)*)
(*                                                                         *)
(* Paths, specifiers and patterns are strings, as in the source.  The      *)
(* string and path-module primitives the rule calls (startsWith, slice,    *)
(* split, path.resolve, path.relative, ...) are modelled by what they      *)
(* compute on POSIX paths, character by character.                         *)
(***************************************************************************)
EXTENDS Integers, Sequences, FiniteSets, TLC

(***************************************************************************)
(* JavaScript string primitives                                            *)
(***************************************************************************)

\* s[i] for a 0-based index i inside the string
charAt(s, i) == SubSeq(s, i + 1, i + 1)

\* String.prototype.startsWith
startsWith(s, prefix) ==
    /\ Len(prefix) <= Len(s)
    /\ SubSeq(s, 1, Len(prefix)) = prefix

\* String.prototype.endsWith
endsWith(s, suffix) ==
    /\ Len(suffix) <= Len(s)
    /\ SubSeq(s, Len(s) - Len(suffix) + 1, Len(s)) = suffix

\* String.prototype.substring(n), 0 <= n
substring(s, n) == SubSeq(s, n + 1, Len(s))

\* String.prototype.slice(0, -1)
sliceDropLast(s) == SubSeq(s, 1, Len(s) - 1)

\* String.prototype.includes for a one-character needle
includes(s, c) == \E i \in 0..(Len(s) - 1) : charAt(s, i) = c

\* index (0-based) of the first occurrence of the character c at or after
\* position i, -1 if none
RECURSIVE indexFrom(_, _, _)
indexFrom(s, c, i) ==
    IF i >= Len(s) THEN -1
    ELSE IF charAt(s, i) = c THEN i
    ELSE indexFrom(s, c, i + 1)

\* String.prototype.indexOf for a one-character needle
indexOf(s, c) == indexFrom(s, c, 0)

\* String.prototype.split on a one-character separator: "".split("/") is [""]
RECURSIVE split(_, _)
split(s, sep) ==
    LET i == indexOf(s, sep)
    IN  IF i = -1
        THEN << s >>
        ELSE << SubSeq(s, 1, i) >> \o split(substring(s, i + 1), sep)

\* Array.prototype.join
RECURSIVE join(_, _)
join(segs, sep) ==
    IF Len(segs) = 0 THEN ""
    ELSE IF Len(segs) = 1 THEN segs[1]
    ELSE segs[1] \o sep \o join(Tail(segs), sep)

(***************************************************************************)
(* JavaScript array primitives                                             *)
(***************************************************************************)

\* a relative index of Array.prototype.slice, clamped into 0..len
sliceIndex(len, k) ==
    IF k < 0 THEN (IF len + k < 0 THEN 0 ELSE len + k)
    ELSE IF k > len THEN len ELSE k

\* Array.prototype.slice(begin, end), negative indexes counting from the end
arraySlice(arr, begin, end) ==
    SubSeq(arr, sliceIndex(Len(arr), begin) + 1, sliceIndex(Len(arr), end))

\* Array.prototype.slice(begin)
arraySliceFrom(arr, begin) == arraySlice(arr, begin, Len(arr))

(***************************************************************************)
(* Node's path module, POSIX flavour                                       *)
(***************************************************************************)

sep == "/"

\* path.isAbsolute
isAbsolute(p) == Len(p) > 0 /\ charAt(p, 0) = sep

\* normalizeString of an absolute path: "" and "." are dropped, ".." removes
\* the segment before it and is dropped at the root
RECURSIVE normalizeSegments(_, _)
normalizeSegments(todo, done) ==
    IF Len(todo) = 0 THEN done
    ELSE LET seg == Head(todo)
         IN  IF seg = "" \/ seg = "."
             THEN normalizeSegments(Tail(todo), done)
             ELSE IF seg = ".."
             THEN normalizeSegments(Tail(todo),
                                    SubSeq(done, 1, Len(done) - 1))
             ELSE normalizeSegments(Tail(todo), Append(done, seg))

\* the segments of a normalised absolute path; the root "/" has none
absoluteSegments(p) == normalizeSegments(split(p, sep), << >>)

\* the arguments of path.resolve joined from the right up to, and
\* including, the last absolute one (empty arguments are skipped)
RECURSIVE resolveJoin(_)
resolveJoin(args) ==
    IF Len(args) = 0 THEN ""
    ELSE LET last == args[Len(args)]
             rest == SubSeq(args, 1, Len(args) - 1)
         IN  IF last = "" THEN resolveJoin(rest)
             ELSE IF isAbsolute(last) THEN last
             ELSE resolveJoin(rest) \o sep \o last

\* path.resolve(...args) where some argument is absolute
pathResolve(args) == sep \o join(absoluteSegments(resolveJoin(args)), sep)

\* path.dirname: the path up to the last separator that follows a
\* non-separator character, trailing separators not counting
RECURSIVE dirnameEnd(_, _, _)
dirnameEnd(p, i, matchedSlash) ==
    IF i < 1 THEN -1
    ELSE IF charAt(p, i) = sep
         THEN IF ~matchedSlash THEN i ELSE dirnameEnd(p, i - 1, matchedSlash)
         ELSE dirnameEnd(p, i - 1, FALSE)

pathDirname(p) ==
    IF Len(p) = 0 THEN "."
    ELSE LET end == dirnameEnd(p, Len(p) - 1, TRUE)
         IN  IF end = -1 THEN (IF isAbsolute(p) THEN sep ELSE ".")
             ELSE IF isAbsolute(p) /\ end = 1 THEN "//"
             ELSE SubSeq(p, 1, end)

\* length of the longest common prefix of two sequences
RECURSIVE commonPrefixLength(_, _)
commonPrefixLength(a, b) ==
    IF Len(a) = 0 \/ Len(b) = 0 \/ Head(a) # Head(b) THEN 0
    ELSE 1 + commonPrefixLength(Tail(a), Tail(b))

\* path.relative(from, to) for absolute paths: one ".." for every segment of
\* `from` below the common directory, then the rest of `to`
pathRelative(from, to) ==
    LET f == absoluteSegments(from)
        t == absoluteSegments(to)
        c == commonPrefixLength(f, t)
    IN  join([i \in 1..(Len(f) - c) |-> ".."] \o SubSeq(t, c + 1, Len(t)), sep)

(***************************************************************************)
(* The rule's helper functions                                             *)
(***************************************************************************)

\* `p.endsWith("/*") ? p.slice(0, -1) : p` of resolveAliasedPath
stripWildcard(p) == IF endsWith(p, "/*") THEN sliceDropLast(p) ELSE p

\* the prefix an alias entry [alias, targets] is matched by
prefixToMatch(entry) == stripWildcard(entry.alias)

\* targetBase taking the last candidate target
targetBaseLast(entry) == stripWildcard(entry.targets[Len(entry.targets)])

\* the target an alias entry resolves to: its first candidate only
targetBase(entry) == stripWildcard(entry.targets[1])

\* resolveWithAlias joining the remainder onto the project root alone
resolveWithAliasNoTarget(importPath, entry, projectRoot) ==
    LET afterPrefix == substring(importPath, Len(prefixToMatch(entry)))
        remainingImportPath ==
            IF startsWith(afterPrefix, "/") THEN substring(afterPrefix, 1)
            ELSE afterPrefix
    IN  IF remainingImportPath # ""
        THEN pathResolve(<< projectRoot, remainingImportPath >>)
        ELSE pathResolve(<< projectRoot >>)

\* the body of the alias loop for an entry whose prefix matched
resolveWithAlias(importPath, entry, projectRoot) ==
    LET afterPrefix == substring(importPath, Len(prefixToMatch(entry)))
        remainingImportPath ==
            IF startsWith(afterPrefix, "/") THEN substring(afterPrefix, 1)
            ELSE afterPrefix
    IN  IF remainingImportPath # ""
        THEN pathResolve(<< projectRoot, targetBase(entry), remainingImportPath >>)
        ELSE pathResolve(<< projectRoot, targetBase(entry) >>)

\* aliasLoop resolving an unmatched specifier against the project root
RECURSIVE aliasLoopResolvingUnmatched(_, _, _, _)
aliasLoopResolvingUnmatched(importPath, aliases, i, projectRoot) ==
    IF i > Len(aliases) THEN pathResolve(<< projectRoot, importPath >>)
    ELSE IF startsWith(importPath, prefixToMatch(aliases[i]))
    THEN resolveWithAlias(importPath, aliases[i], projectRoot)
    ELSE aliasLoopResolvingUnmatched(importPath, aliases, i + 1, projectRoot)

\* the alias loop from entry i on (1-based), in Object.entries order; the
\* specifier itself when no prefix matches
RECURSIVE aliasLoop(_, _, _, _)
aliasLoop(importPath, aliases, i, projectRoot) ==
    IF i > Len(aliases) THEN importPath
    ELSE IF startsWith(importPath, prefixToMatch(aliases[i]))
    THEN resolveWithAlias(importPath, aliases[i], projectRoot)
    ELSE aliasLoop(importPath, aliases, i + 1, projectRoot)

resolveAliasedPath(importPath, importerFilePath, aliases, projectRoot) ==
    IF startsWith(importPath, ".")
    THEN pathResolve(<< pathDirname(importerFilePath), importPath >>)
    ELSE aliasLoop(importPath, aliases, 1, projectRoot)

getPathSegmentsRelativeToRoot(absolutePath, projectRoot) ==
    LET relativePath == pathRelative(projectRoot, absolutePath)
    IN  IF relativePath # "" THEN split(relativePath, sep) ELSE << >>

\* zoneContains without the test for a leading ".."
zoneContainsNoParentTest(zone, filePath, projectRoot) ==
    LET zonePath == pathResolve(<< projectRoot, zone >>)
        relativePath == pathRelative(zonePath, filePath)
    IN  /\ relativePath # ""
        /\ ~isAbsolute(relativePath)

\* the callback of zones.some: zones are the zone.path strings
zoneContains(zone, filePath, projectRoot) ==
    LET zonePath == pathResolve(<< projectRoot, zone >>)
        relativePath == pathRelative(zonePath, filePath)
    IN  /\ relativePath # ""
        /\ ~startsWith(relativePath, "..")
        /\ ~isAbsolute(relativePath)

isPathInRuleZone(filePath, zones, projectRoot) ==
    IF Len(zones) = 0 THEN FALSE
    ELSE \E z \in 1..Len(zones) : zoneContains(zones[z], filePath, projectRoot)

\* `_segments || pattern.split("/")`: the cache when the entry carries one
patternSegments(p) ==
    IF "_segments" \in DOMAIN p THEN p._segments ELSE split(p.pattern, "/")

\* patternSegments.every(...) of the folder branch; the caller has checked
\* that the pattern is no longer than the input
folderMatches(segs, segmentsToCheck) ==
    \A i \in 0..(Len(segs) - 1) : segs[i + 1] = segmentsToCheck[i + 1]

\* patternSegments.every(...) of the file branch, counted from the end
fileMatches(segs, segmentsToCheck) ==
    \A i \in 0..(Len(segs) - 1) :
        segs[i + 1] = segmentsToCheck[Len(segmentsToCheck) - Len(segs) + i + 1]

\* one iteration of the for loop: TRUE when it returns true
patternMatches(p, segmentsToCheck) ==
    LET segs == patternSegments(p)
    IN  IF p.type = "folder"
        THEN IF Len(segs) > Len(segmentsToCheck) THEN FALSE
             ELSE folderMatches(segs, segmentsToCheck)
        ELSE IF p.type = "file"
        THEN IF Len(segs) > Len(segmentsToCheck) THEN FALSE
             ELSE fileMatches(segs, segmentsToCheck)
        ELSE FALSE

\* matchLoop deciding on the first pattern it looks at
matchLoopFirstPatternOnly(segmentsToCheck, sharedPatterns, i) ==
    IF i > Len(sharedPatterns) THEN FALSE
    ELSE patternMatches(sharedPatterns[i], segmentsToCheck)

\* the for loop from entry i on (1-based): returns at the first match
RECURSIVE matchLoop(_, _, _)
matchLoop(segmentsToCheck, sharedPatterns, i) ==
    IF i > Len(sharedPatterns) THEN FALSE
    ELSE IF patternMatches(sharedPatterns[i], segmentsToCheck) THEN TRUE
    ELSE matchLoop(segmentsToCheck, sharedPatterns, i + 1)

matchesSharedPattern(segmentsToCheck, sharedPatterns) ==
    IF Len(segmentsToCheck) = 0 THEN FALSE
    ELSE matchLoop(segmentsToCheck, sharedPatterns, 1)

\* importerSegments.slice(0, minLength).findIndex((segment, i) =>
\*   segment !== importedSegments[i]); an index past the end of
\* importedSegments reads undefined, which differs from every segment
mismatchIndex(importerSegments, importedSegments, minLength) ==
    LET head == arraySlice(importerSegments, 0, minLength)
        differs(i) == \/ i >= Len(importedSegments)
                      \/ head[i + 1] # importedSegments[i + 1]
    IN  IF \E i \in 0..(Len(head) - 1) : differs(i)
        THEN CHOOSE i \in 0..(Len(head) - 1) :
                /\ differs(i)
                /\ \A j \in 0..(i - 1) : ~differs(j)
        ELSE -1

\* commonAncestorEndIndex ending one segment early when nothing differs
commonAncestorEndIndexShort(importerSegments, importedSegments) ==
    LET a == Len(importerSegments) - 1
        b == Len(importedSegments) - 1
        minLength == IF a < b THEN a ELSE b
        m == mismatchIndex(importerSegments, importedSegments, minLength)
    IN  IF m = -1 THEN minLength - 2 ELSE m - 1

\* mismatchIndex === -1 ? minLength - 1 : mismatchIndex - 1
commonAncestorEndIndex(importerSegments, importedSegments) ==
    LET a == Len(importerSegments) - 1
        b == Len(importedSegments) - 1
        minLength == IF a < b THEN a ELSE b
        m == mismatchIndex(importerSegments, importedSegments, minLength)
    IN  IF m = -1 THEN minLength - 1 ELSE m - 1

\* cousinTest without the depth test on the importer's side
cousinTestImportedOnly(importerSegmentsAfterAncestor, importedSegmentsAfterAncestor) ==
    /\ Len(importedSegmentsAfterAncestor) > 1
    /\ Len(importerSegmentsAfterAncestor) > 0
    /\ importerSegmentsAfterAncestor[1] # importedSegmentsAfterAncestor[1]

\* cousinTest comparing the branch names only
cousinTestBranchOnly(importerSegmentsAfterAncestor, importedSegmentsAfterAncestor) ==
    /\ Len(importerSegmentsAfterAncestor) > 0
    /\ Len(importedSegmentsAfterAncestor) > 0
    /\ importerSegmentsAfterAncestor[1] # importedSegmentsAfterAncestor[1]

\* the isCousin expression
cousinTest(importerSegmentsAfterAncestor, importedSegmentsAfterAncestor) ==
    /\ Len(importerSegmentsAfterAncestor) > 1
    /\ Len(importedSegmentsAfterAncestor) > 1
    /\ importerSegmentsAfterAncestor[1] # importedSegmentsAfterAncestor[1]

\* ancestorDirectoryShared accepting a pattern of either type
ancestorDirectorySharedAnyType(commonAncestorPathSegments, sharedPatterns) ==
    IF Len(commonAncestorPathSegments) > 0
    THEN LET lastSegment ==
                commonAncestorPathSegments[Len(commonAncestorPathSegments)]
         IN  \E k \in 1..Len(sharedPatterns) :
                /\ ~includes(sharedPatterns[k].pattern, "/")
                /\ sharedPatterns[k].pattern = lastSegment
    ELSE FALSE

\* the isCommonAncestorDirectoryShared block
ancestorDirectoryShared(commonAncestorPathSegments, sharedPatterns) ==
    IF Len(commonAncestorPathSegments) > 0
    THEN LET lastSegment ==
                commonAncestorPathSegments[Len(commonAncestorPathSegments)]
         IN  \E k \in 1..Len(sharedPatterns) :
                /\ sharedPatterns[k].type = "folder"
                /\ ~includes(sharedPatterns[k].pattern, "/")
                /\ sharedPatterns[k].pattern = lastSegment
    ELSE FALSE

analyzeImportRelationship(importerAbsolutePath, importedAbsolutePath, projectRoot, sharedPatterns) ==
    LET importerSegments ==
            getPathSegmentsRelativeToRoot(importerAbsolutePath, projectRoot)
        importedSegments ==
            getPathSegmentsRelativeToRoot(importedAbsolutePath, projectRoot)
        endIndex == commonAncestorEndIndex(importerSegments, importedSegments)
        commonAncestorPathSegments ==
            arraySlice(importerSegments, 0, endIndex + 1)
        importerSegmentsAfterAncestor ==
            arraySliceFrom(importerSegments, endIndex + 1)
        importedSegmentsAfterAncestor ==
            arraySliceFrom(importedSegments, endIndex + 1)
    IN  [ isCousin |-> cousinTest(importerSegmentsAfterAncestor,
                                  importedSegmentsAfterAncestor),
          isImportTargetShared |->
              matchesSharedPattern(importedSegmentsAfterAncestor, sharedPatterns),
          isCommonAncestorDirectoryShared |->
              ancestorDirectoryShared(commonAncestorPathSegments, sharedPatterns),
          commonAncestorPathSegments |-> commonAncestorPathSegments,
          importedSegmentsAfterAncestor |-> importedSegmentsAfterAncestor ]

\* commonAncestorPathSegments.join(path.sep) || "(project root)"
commonAncestorPathString(commonAncestorPathSegments) ==
    LET joined == join(commonAncestorPathSegments, sep)
    IN  IF joined # "" THEN joined ELSE "(project root)"

\* the quoted ancestor, or the unquoted "(project root)"
commonAncestorDisplay(commonAncestorPathSegments) ==
    LET str == commonAncestorPathString(commonAncestorPathSegments)
    IN  IF str = "(project root)" THEN str ELSE "'" \o str \o "'"

\* the notice returned when no suggestion applies
NoSuggestion ==
    << [ notice |-> "(No specific pattern suggestions for this case; review project structure or global shared locations.)" ] >>

\* generateViolationSuggestions naming the ancestor by its whole path
generateViolationSuggestionsAncestorPath(commonAncestorPathSegments, importedSegmentsAfterAncestor) ==
    LET display == commonAncestorDisplay(commonAncestorPathSegments)
        n == Len(commonAncestorPathSegments)
        ancestorSuggestion ==
            IF n > 0 /\ commonAncestorPathSegments[n] # ""
            THEN << [ pattern |-> join(commonAncestorPathSegments, "/"),
                      type |-> "folder", ancestor |-> display ] >>
            ELSE << >>
        parentSuggestion ==
            IF Len(importedSegmentsAfterAncestor) > 1
            THEN << [ pattern |->
                          join(arraySlice(importedSegmentsAfterAncestor, 0, -1), "/"),
                      type |-> "folder", ancestor |-> display ] >>
            ELSE << >>
        fileSuggestion ==
            IF Len(importedSegmentsAfterAncestor) > 0
            THEN << [ pattern |-> join(importedSegmentsAfterAncestor, "/"),
                      type |-> "file", ancestor |-> display ] >>
            ELSE << >>
        suggestions == ancestorSuggestion \o parentSuggestion \o fileSuggestion
    IN  IF Len(suggestions) > 0 THEN suggestions ELSE NoSuggestion

\* generateViolationSuggestions proposing the file pattern only for a target
\* of more than one segment
generateViolationSuggestionsDeepFileOnly(commonAncestorPathSegments, importedSegmentsAfterAncestor) ==
    LET display == commonAncestorDisplay(commonAncestorPathSegments)
        n == Len(commonAncestorPathSegments)
        ancestorSuggestion ==
            IF n > 0 /\ commonAncestorPathSegments[n] # ""
            THEN << [ pattern |-> commonAncestorPathSegments[n],
                      type |-> "folder", ancestor |-> display ] >>
            ELSE << >>
        parentSuggestion ==
            IF Len(importedSegmentsAfterAncestor) > 1
            THEN << [ pattern |->
                          join(arraySlice(importedSegmentsAfterAncestor, 0, -1), "/"),
                      type |-> "folder", ancestor |-> display ] >>
            ELSE << >>
        fileSuggestion ==
            IF Len(importedSegmentsAfterAncestor) > 1
            THEN << [ pattern |-> join(importedSegmentsAfterAncestor, "/"),
                      type |-> "file", ancestor |-> display ] >>
            ELSE << >>
        suggestions == ancestorSuggestion \o parentSuggestion \o fileSuggestion
    IN  IF Len(suggestions) > 0 THEN suggestions ELSE NoSuggestion

\* The suggestions in the order they are pushed.  Each is kept as the
\* pattern object its text proposes and the ancestor its text displays; the
\* fixed wording around them is left out.
generateViolationSuggestions(commonAncestorPathSegments, importedSegmentsAfterAncestor) ==
    LET display == commonAncestorDisplay(commonAncestorPathSegments)
        n == Len(commonAncestorPathSegments)
        ancestorSuggestion ==
            IF n > 0 /\ commonAncestorPathSegments[n] # ""
            THEN << [ pattern |-> commonAncestorPathSegments[n],
                      type |-> "folder", ancestor |-> display ] >>
            ELSE << >>
        parentSuggestion ==
            IF Len(importedSegmentsAfterAncestor) > 1
            THEN << [ pattern |->
                          join(arraySlice(importedSegmentsAfterAncestor, 0, -1), "/"),
                      type |-> "folder", ancestor |-> display ] >>
            ELSE << >>
        fileSuggestion ==
            IF Len(importedSegmentsAfterAncestor) > 0
            THEN << [ pattern |-> join(importedSegmentsAfterAncestor, "/"),
                      type |-> "file", ancestor |-> display ] >>
            ELSE << >>
        suggestions == ancestorSuggestion \o parentSuggestion \o fileSuggestion
    IN  IF Len(suggestions) > 0 THEN suggestions ELSE NoSuggestion

\* sharedPatterns.filter((p) => p.type === t).map((p) => `'${p.pattern}'`)
quotedPatterns(sharedPatterns, t) ==
    LET keep(p) == p.type = t
        quote(p) == "'" \o p.pattern \o "'"
        picked == SelectSeq(sharedPatterns, keep)
    IN  [ i \in 1..Len(picked) |-> quote(picked[i]) ]

\* The summary of the configured patterns: the folder line, then the file
\* line, each present when it has a pattern; the fixed wording is shortened.
formatExistingSharedPatterns(sharedPatterns) ==
    IF Len(sharedPatterns) = 0 THEN "None configured."
    ELSE LET folderPatterns == quotedPatterns(sharedPatterns, "folder")
             filePatterns == quotedPatterns(sharedPatterns, "file")
             folderPart ==
                 IF Len(folderPatterns) > 0
                 THEN << "Folder patterns: " \o join(folderPatterns, ", ") >>
                 ELSE << >>
             filePart ==
                 IF Len(filePatterns) > 0
                 THEN << "File patterns: " \o join(filePatterns, ", ") >>
                 ELSE << >>
         IN  join(folderPart \o filePart, "\n")

(***************************************************************************)
(* Inputs: the project, the configurations, the linted files and the       *)
(* import statements the host may hand to the rule.  Names are one letter  *)
(* long: the project root is /p and /pq is a directory beside it whose     *)
(* name starts with the root's; s and t are directories used as zones      *)
(* (src, app), o is one that never is; a, b, c, m and h are directories    *)
(* below them (modules, a "modules" folder, a "shared" folder) and ..a is  *)
(* a directory whose name starts with two dots; f, g and u are files.      *)
(* Alias targets are relative to the project root and every alias has at   *)
(* least one target, as the schema describes them.                         *)
(***************************************************************************)

\* the deepest "../" chain of a relative specifier
MaxUp == 3

\* options._testProjectRoot || context.cwd
ProjectRoot == "/p"

\* options.zones, each zone by its path
ZoneLists == { << >>, << "s" >>, << "s", "t" >>, << "." >> }

folder(pattern) == [ pattern |-> pattern, type |-> "folder" ]
file(pattern) == [ pattern |-> pattern, type |-> "file" ]

\* options.sharedPatterns
SharedPatternLists ==
    { << >>,
      << folder("h") >>,
      << folder("m"), file("c/g") >>,
      << folder("b/c"), file("u") >>,
      << file("m"), folder("s/m") >> }

alias(prefix, targets) == [ alias |-> prefix, targets |-> targets ]

\* options.aliases, as Object.entries lists it
AliasLists ==
    { << >>,
      << alias("@/*", << "s/*" >>) >>,
      << alias("@/*", << "s/*", "t/*" >>), alias("@u", << "s/h/u" >>) >>,
      << alias("@", << "s/b" >>), alias("@/*", << "t/*" >>) >> }

Options ==
    [ zones : ZoneLists, sharedPatterns : SharedPatternLists, aliases : AliasLists ]

\* context.filename: the absolute path of the linted file
Filenames ==
    { "/p/s/a/f", "/p/s/m/a/f", "/p/s/f", "/p/f", "/p/t/a/f", "/p/o/f",
      "/p/s/..a/f" }

\* "./" for k = 0, else k times "../"
RECURSIVE upChain(_)
upChain(k) == IF k = 0 THEN "./" ELSE IF k = 1 THEN "../" ELSE "../" \o upChain(k - 1)

\* what follows the "./" or "../" chain of a relative specifier
RelativeTails == { "", "g", "b/g", "b/c/g", "h/u", "c/g", "pq/b/g", "b/h/u" }

RelativeSpecifiers == { upChain(k) \o t : k \in 0..MaxUp, t \in RelativeTails }

\* aliased, bare and absolute specifiers
OtherSpecifiers == { "@/b/g", "@", "@u", "l", "/p/s/b/g", "/pq/b/g" }

Specifiers == RelativeSpecifiers \cup OtherSpecifiers

\* specifiers that also occur in type-only imports
TypeOnlySpecifiers == { "../b/g", "@/b/g", "/p/s/b/g" }

\* node.source.value and node.importKind of an ImportDeclaration node
Nodes ==
    [ source : Specifiers, importKind : { "value" } ]
        \cup [ source : TypeOnlySpecifiers, importKind : { "type" } ]

(***************************************************************************)
(* The rule instance: create(context) and its ImportDeclaration handler.   *)
(* A behaviour lints one file and follows one of its import statements:    *)
(* the host creates the rule instance for the file, then hands it the      *)
(* statement.                                                              *)
(***************************************************************************)

VARIABLES
    pc,                       \* "configured", "created" by create(context),
                              \* "visited" once the file's import statement
                              \* has been handed to the rule; "call" and
                              \* "returned" around a direct helper call
    options,                  \* context.options[0]
    filename,                 \* context.filename
    optimizedSharedPatterns,  \* create's pattern list with the _segments cache
    isFileInRuleZone,         \* create's zone-membership flag
    hasHandler,               \* create returned an ImportDeclaration handler
    node,                     \* the statement visited last: << >> or << node >>
    resolved,                 \* its resolvedImportAbsolutePath, when computed
    analysis,                 \* its analysis, when computed
    reports,                  \* what context.report received for it
    matchInput,               \* the arguments of a direct matchesSharedPattern
                              \* call (the rule's exported internals)
    matchOutput,              \* << >>, or << what that call returned >>
    helperCall,               \* a direct call of another exported helper:
                              \* its name and arguments
    helperResult,             \* << >>, or << what that call returned >>
    instances,                \* the rule instances a host has created, each
                              \* with the values its handler closes over
    calls                     \* the handler calls that host has made so far:
                              \* instance, node and outcome

vars == << pc, options, filename, optimizedSharedPatterns, isFileInRuleZone,
           hasHandler, node, resolved, analysis, reports, matchInput,
           matchOutput, helperCall, helperResult, instances, calls >>

\* the direct call of a helper other than the matcher
direct == << helperCall, helperResult >>

\* the instances and calls of a host that lints several files
host == << instances, calls >>

config == << options, filename, optimizedSharedPatterns, isFileInRuleZone,
             hasHandler >>

\* no direct call of a helper is under way
NoCall == [ segmentsToCheck |-> << >>, sharedPatterns |-> << >> ]
NoHelperCall == [ fn |-> "none" ]

Init ==
    /\ pc = "configured"
    /\ options \in Options
    /\ filename \in Filenames
    /\ optimizedSharedPatterns = << >>
    /\ isFileInRuleZone = FALSE
    /\ hasHandler = FALSE
    /\ node = << >>
    /\ resolved = << >>
    /\ analysis = << >>
    /\ reports = << >>
    /\ matchInput = NoCall
    /\ matchOutput = << >>
    /\ helperCall = NoHelperCall
    /\ helperResult = << >>
    /\ instances = << >>
    /\ calls = << >>

\* sharedPatternsConfig.map((pattern) => ({...pattern, _segments: ...}))
optimize(sharedPatternsConfig) ==
    [ i \in 1..Len(sharedPatternsConfig) |->
        [ pattern |-> sharedPatternsConfig[i].pattern,
          type |-> sharedPatternsConfig[i].type,
          _segments |-> split(sharedPatternsConfig[i].pattern, "/") ] ]

\* create(context): no handler at all when no zone is configured
Create ==
    /\ pc = "configured"
    /\ pc' = "created"
    /\ optimizedSharedPatterns' = optimize(options.sharedPatterns)
    /\ IF Len(options.zones) = 0
       THEN /\ hasHandler' = FALSE
            /\ isFileInRuleZone' = FALSE
       ELSE /\ hasHandler' = TRUE
            /\ isFileInRuleZone' =
                   isPathInRuleZone(filename, options.zones, ProjectRoot)
    /\ UNCHANGED << options, filename, node, resolved, analysis, reports,
                    matchInput, matchOutput, direct, host >>

\* returnsEarly without the importKind test
returnsEarlyZoneOnly(n, inZone) == ~inZone

\* the handler's first two early returns
returnsEarly(n, inZone) == n.importKind = "type" \/ ~inZone

\* the handler's third early return: not a path of the project, or the
\* importer itself
notApplicable(importerAbsolutePath, resolvedImportAbsolutePath, projectRoot) ==
    \/ ~isAbsolute(resolvedImportAbsolutePath)
    \/ ~startsWith(resolvedImportAbsolutePath, projectRoot)
    \/ pathResolve(<< importerAbsolutePath >>) =
           pathResolve(<< resolvedImportAbsolutePath >>)

\* isViolation without the shared-ancestor exemption
isViolationTargetOnly(a) ==
    /\ a.isCousin
    /\ ~a.isImportTargetShared

\* the condition under which the handler reports
isViolation(a) ==
    /\ a.isCousin
    /\ ~a.isImportTargetShared
    /\ ~a.isCommonAncestorDirectoryShared

\* the data of context.report
reportData(importerAbsolutePath, resolvedImportAbsolutePath, a, sharedPatternsConfig, projectRoot) ==
    [ importerRelative |-> pathRelative(projectRoot, importerAbsolutePath),
      importedRelative |-> pathRelative(projectRoot, resolvedImportAbsolutePath),
      commonAncestorPathString |->
          commonAncestorPathString(a.commonAncestorPathSegments),
      existingSharedPatternsList |->
          formatExistingSharedPatterns(sharedPatternsConfig),
      violationSuggestions |->
          generateViolationSuggestions(a.commonAncestorPathSegments,
                                       a.importedSegmentsAfterAncestor) ]

\* handlerRun skipping a target that lies in none of the zones
handlerRunZonedTarget(n, importer, opts, patterns, inZone) ==
    IF returnsEarly(n, inZone)
    THEN [ resolved |-> << >>, analysis |-> << >>, reports |-> << >> ]
    ELSE LET resolvedImportAbsolutePath ==
                 resolveAliasedPath(n.source, importer, opts.aliases, ProjectRoot)
         IN  IF \/ notApplicable(importer, resolvedImportAbsolutePath, ProjectRoot)
                \/ ~isPathInRuleZone(resolvedImportAbsolutePath, opts.zones,
                                     ProjectRoot)
             THEN [ resolved |-> << resolvedImportAbsolutePath >>,
                    analysis |-> << >>, reports |-> << >> ]
             ELSE LET a == analyzeImportRelationship(importer,
                               resolvedImportAbsolutePath, ProjectRoot, patterns)
                  IN  [ resolved |-> << resolvedImportAbsolutePath >>,
                        analysis |-> << a >>,
                        reports |->
                            IF isViolation(a)
                            THEN << reportData(importer, resolvedImportAbsolutePath,
                                               a, opts.sharedPatterns, ProjectRoot) >>
                            ELSE << >> ]

\* One run of the handler on node n for a rule instance created for `importer`
\* with options `opts`: what it resolved, analysed and reported.
handlerRun(n, importer, opts, patterns, inZone) ==
    IF returnsEarly(n, inZone)
    THEN [ resolved |-> << >>, analysis |-> << >>, reports |-> << >> ]
    ELSE LET resolvedImportAbsolutePath ==
                 resolveAliasedPath(n.source, importer, opts.aliases, ProjectRoot)
         IN  IF notApplicable(importer, resolvedImportAbsolutePath, ProjectRoot)
             THEN [ resolved |-> << resolvedImportAbsolutePath >>,
                    analysis |-> << >>, reports |-> << >> ]
             ELSE LET a == analyzeImportRelationship(importer,
                               resolvedImportAbsolutePath, ProjectRoot, patterns)
                  IN  [ resolved |-> << resolvedImportAbsolutePath >>,
                        analysis |-> << a >>,
                        reports |->
                            IF isViolation(a)
                            THEN << reportData(importer, resolvedImportAbsolutePath,
                                               a, opts.sharedPatterns, ProjectRoot) >>
                            ELSE << >> ]

\* the host reaches an import statement and calls the handler
ImportDeclaration(n) ==
    /\ pc = "created"
    /\ hasHandler
    /\ LET run == handlerRun(n, filename, options, optimizedSharedPatterns,
                             isFileInRuleZone)
       IN  /\ node' = << n >>
           /\ resolved' = run.resolved
           /\ analysis' = run.analysis
           /\ reports' = run.reports
    /\ pc' = "visited"
    /\ UNCHANGED << config, matchInput, matchOutput, direct, host >>

\* the host reaches an import statement of a file whose rule instance
\* registered no handler: nothing runs
Unhandled(n) ==
    /\ pc = "created"
    /\ ~hasHandler
    /\ node' = << n >>
    /\ resolved' = << >>
    /\ analysis' = << >>
    /\ reports' = << >>
    /\ pc' = "visited"
    /\ UNCHANGED << config, matchInput, matchOutput, direct, host >>

Next ==
    \/ Create
    \/ \E n \in Nodes : ImportDeclaration(n)
    \/ \E n \in Nodes : Unhandled(n)

Spec == Init /\ [][Next]_vars

(***************************************************************************)
(* Direct calls of matchesSharedPattern, as the rule's exported internals  *)
(* allow: the arguments are drawn from bounded sets, with or without the   *)
(* _segments cache on the patterns                                         *)
(***************************************************************************)

\* the longest segment sequence handed to the matcher
MaxSegments == 3

\* the longest pattern list handed to the matcher
MaxPatterns == 2

SegmentNames == { "a", "b", "c" }

PatternStrings == { "a", "a/b", "b/c" }

PatternPool == { folder(q) : q \in PatternStrings } \cup { file(q) : q \in PatternStrings }

\* the sequences over S of length at most n
seqsUpTo(S, n) == UNION { [ 1..k -> S ] : k \in 0..n }

\* options of a context that configures nothing
NoOptions == [ zones |-> << >>, sharedPatterns |-> << >>, aliases |-> << >> ]

InitMatch ==
    /\ pc = "call"
    /\ \E segs \in seqsUpTo(SegmentNames, MaxSegments),
          plain \in seqsUpTo(PatternPool, MaxPatterns),
          cached \in BOOLEAN :
            matchInput = [ segmentsToCheck |-> segs,
                           sharedPatterns |->
                               IF cached THEN optimize(plain) ELSE plain ]
    /\ matchOutput = << >>
    /\ options = NoOptions
    /\ filename = ProjectRoot \o "/f"
    /\ optimizedSharedPatterns = << >>
    /\ isFileInRuleZone = FALSE
    /\ hasHandler = FALSE
    /\ node = << >>
    /\ resolved = << >>
    /\ analysis = << >>
    /\ reports = << >>
    /\ helperCall = NoHelperCall
    /\ helperResult = << >>
    /\ instances = << >>
    /\ calls = << >>

\* the call returns
Match ==
    /\ pc = "call"
    /\ pc' = "returned"
    /\ matchOutput' = << matchesSharedPattern(matchInput.segmentsToCheck,
                                              matchInput.sharedPatterns) >>
    /\ UNCHANGED << config, node, resolved, analysis, reports, matchInput,
                    direct, host >>

NextMatch == Match

SpecMatch == InitMatch /\ [][NextMatch]_vars

(***************************************************************************)
(* Direct calls of isPathInRuleZone and generateViolationSuggestions, the  *)
(* other exported helpers whose results do not all show in a report        *)
(***************************************************************************)

\* the longest zone list handed to isPathInRuleZone
MaxZones == 2

\* the deepest common ancestor handed to generateViolationSuggestions
MaxAncestor == 2

\* zone.path values: s/m is a directory inside the zone s
ZonePaths == { "s", "s/m", ".", "t" }

\* files and directories in, beside and equal to the zone directories; sa
\* and ..a are directories whose names start like "s" and like ".."
ZoneFiles ==
    { "/p/s/a/f", "/p/s/m/f", "/p/s/f", "/p/s", "/p/s/m", "/p/sa/f",
      "/p/s/..a/f", "/p/..a/f", "/p/t/f", "/p/f", "/p/o/f" }

ZoneCalls ==
    [ fn : { "isPathInRuleZone" }, filePath : ZoneFiles,
      zones : seqsUpTo(ZonePaths, MaxZones), projectRoot : { ProjectRoot } ]

AncestorNames == { "s", "m" }

AfterNames == { "b", "c", "g" }

SuggestionCalls ==
    [ fn : { "generateViolationSuggestions" },
      commonAncestorPathSegments : seqsUpTo(AncestorNames, MaxAncestor),
      importedSegmentsAfterAncestor : seqsUpTo(AfterNames, MaxSegments) ]

InitHelper ==
    /\ pc = "call"
    /\ helperCall \in ZoneCalls \cup SuggestionCalls
    /\ helperResult = << >>
    /\ matchInput = NoCall
    /\ matchOutput = << >>
    /\ options = NoOptions
    /\ filename = ProjectRoot \o "/f"
    /\ optimizedSharedPatterns = << >>
    /\ isFileInRuleZone = FALSE
    /\ hasHandler = FALSE
    /\ node = << >>
    /\ resolved = << >>
    /\ analysis = << >>
    /\ reports = << >>
    /\ instances = << >>
    /\ calls = << >>

\* isPathInRuleZone(filePath, zones, projectRoot) returns
InRuleZone ==
    /\ pc = "call"
    /\ helperCall.fn = "isPathInRuleZone"
    /\ pc' = "returned"
    /\ helperResult' = << isPathInRuleZone(helperCall.filePath, helperCall.zones,
                                           helperCall.projectRoot) >>
    /\ UNCHANGED << config, node, resolved, analysis, reports, matchInput,
                    matchOutput, helperCall, host >>

\* generateViolationSuggestions(...) returns
Suggest ==
    /\ pc = "call"
    /\ helperCall.fn = "generateViolationSuggestions"
    /\ pc' = "returned"
    /\ helperResult' =
           << generateViolationSuggestions(helperCall.commonAncestorPathSegments,
                                           helperCall.importedSegmentsAfterAncestor) >>
    /\ UNCHANGED << config, node, resolved, analysis, reports, matchInput,
                    matchOutput, helperCall, host >>

NextHelper == InRuleZone \/ Suggest

SpecHelper == InitHelper /\ [][NextHelper]_vars

(***************************************************************************)
(* A host that lints several files with one configuration: it creates a    *)
(* rule instance per file and calls the instances' handlers in any order,  *)
(* any number of times.  Handlers run to completion one at a time.         *)
(***************************************************************************)

\* the most rule instances the host creates
MaxInstances == 2

\* the most handler calls the host makes
MaxCalls == 2

HostOptions ==
    { [ zones |-> << "s" >>, sharedPatterns |-> << folder("h") >>,
        aliases |-> << alias("@/*", << "s/*" >>) >> ],
      [ zones |-> << "." >>, sharedPatterns |-> << folder("m"), file("c/g") >>,
        aliases |-> << >> ] }

HostFiles == { "/p/s/a/f", "/p/t/a/f" }

HostNodes ==
    { [ source |-> "../b/g", importKind |-> "value" ],
      [ source |-> "@/h/u", importKind |-> "value" ],
      [ source |-> "../b/g", importKind |-> "type" ] }

\* what create(context) leaves in the closure of the handler it returns
createInstance(opts, linted) ==
    [ options |-> opts,
      filename |-> linted,
      optimizedSharedPatterns |-> optimize(opts.sharedPatterns),
      hasHandler |-> Len(opts.zones) # 0,
      isFileInRuleZone |->
          IF Len(opts.zones) = 0 THEN FALSE
          ELSE isPathInRuleZone(linted, opts.zones, ProjectRoot) ]

\* one run of an instance's handler on node n
instanceRun(instance, n) ==
    handlerRun(n, instance.filename, instance.options,
               instance.optimizedSharedPatterns, instance.isFileInRuleZone)

\* closureAfter for a handler that stops checking a file after its first
\* report
closureAfterFirstReport(instance, n) ==
    IF instanceRun(instance, n).reports # << >>
    THEN [ instance EXCEPT !.isFileInRuleZone = FALSE ]
    ELSE instance

\* the closure after a handler call: the handler and the helpers it calls
\* assign none of the values it closes over
closureAfter(instance, n) == instance

InitHost ==
    /\ pc = "host"
    /\ options \in HostOptions
    /\ instances = << >>
    /\ calls = << >>
    /\ filename = ProjectRoot \o "/f"
    /\ optimizedSharedPatterns = << >>
    /\ isFileInRuleZone = FALSE
    /\ hasHandler = FALSE
    /\ node = << >>
    /\ resolved = << >>
    /\ analysis = << >>
    /\ reports = << >>
    /\ matchInput = NoCall
    /\ matchOutput = << >>
    /\ helperCall = NoHelperCall
    /\ helperResult = << >>

\* the host starts linting a file: create(context) for it
HostCreate(linted) ==
    /\ pc = "host"
    /\ Len(instances) < MaxInstances
    /\ instances' = Append(instances, createInstance(options, linted))
    /\ UNCHANGED << pc, config, node, resolved, analysis, reports, matchInput,
                    matchOutput, direct, calls >>

\* the host hands node n to the handler of instance i
HostVisit(i, n) ==
    /\ pc = "host"
    /\ Len(calls) < MaxCalls
    /\ i \in 1..Len(instances)
    /\ instances[i].hasHandler
    /\ calls' = Append(calls, [ instance |-> i, node |-> n,
                                run |-> instanceRun(instances[i], n) ])
    /\ instances' = [ instances EXCEPT ![i] = closureAfter(instances[i], n) ]
    /\ UNCHANGED << pc, config, node, resolved, analysis, reports, matchInput,
                    matchOutput, direct >>

NextHost ==
    \/ \E linted \in HostFiles : HostCreate(linted)
    \/ \E i \in 1..MaxInstances, n \in HostNodes : HostVisit(i, n)

SpecHost == InitHost /\ [][NextHost]_vars

(***************************************************************************)
(* Path geometry, stated on whole segments and independently of the rule's *)
(* own functions; the properties below are phrased with it                 *)
(***************************************************************************)

isPrefix(a, b) == Len(a) <= Len(b) /\ SubSeq(b, 1, Len(a)) = a

isProperPrefix(a, b) == Len(a) < Len(b) /\ SubSeq(b, 1, Len(a)) = a

allButLast(q) == SubSeq(q, 1, Len(q) - 1)

rootSegments == absoluteSegments(ProjectRoot)

\* an absolute path inside the project root's subtree (the root included)
underRoot(p) == isAbsolute(p) /\ isPrefix(rootSegments, absoluteSegments(p))

\* the segments of a path under the root, below the root
belowRoot(p) ==
    SubSeq(absoluteSegments(p), Len(rootSegments) + 1, Len(absoluteSegments(p)))

\* the file lies strictly under the directory of some zone
liesInSomeZone(f, zones) ==
    \E z \in 1..Len(zones) :
        isProperPrefix(absoluteSegments(ProjectRoot \o sep \o zones[z]),
                       absoluteSegments(f))

\* the statement visited last
visited == pc = "visited"
theNode == node[1]
theResolved == resolved[1]
theAnalysis == analysis[1]
theReport == reports[1]

\* the handler ran on a value import of a file it holds to be in a zone and
\* resolved the specifier to a path of the project other than the importer
analysable ==
    /\ visited
    /\ hasHandler
    /\ isFileInRuleZone
    /\ theNode.importKind = "value"
    /\ resolved # << >>
    /\ underRoot(theResolved)
    /\ absoluteSegments(theResolved) # absoluteSegments(filename)

\* the segments of the importer and of the resolved target below the root
importerSegs == belowRoot(filename)
importedSegs == belowRoot(theResolved)

sameDirectory == allButLast(importedSegs) = allButLast(importerSegs)

parentImport ==
    \/ isPrefix(importedSegs, allButLast(importerSegs))
    \/ /\ Len(importedSegs) > 0
       /\ isPrefix(allButLast(importedSegs), allButLast(importerSegs))

childImport == isProperPrefix(allButLast(importerSegs), allButLast(importedSegs))

C3_NoCousinAmongRelatives ==
    (analysable /\ (sameDirectory \/ parentImport \/ childImport)) =>
        /\ analysis # << >>
        /\ ~theAnalysis.isCousin
        /\ reports = << >>

\* a child import: the target lies two directories below the importer's own
C3_Witness ==
    /\ analysable
    /\ childImport
    /\ Len(importedSegs) = Len(importerSegs) + 2
    /\ ~theAnalysis.isCousin

(***************************************************************************)
(* C4: a type-only import is never reported, whatever the configuration,   *)
(* the importer and the specifier.                                         *)
(***************************************************************************)
C4_TypeOnlyNeverReported ==
    (visited /\ theNode.importKind = "type") => reports = << >>

\* a type-only import whose value form the same rule instance reports
C4_Witness ==
    /\ visited
    /\ hasHandler
    /\ theNode.importKind = "type"
    /\ reports = << >>
    /\ handlerRun([ theNode EXCEPT !.importKind = "value" ], filename, options,
                  optimizedSharedPatterns, isFileInRuleZone).reports # << >>

(***************************************************************************)
(* C5: no statement of a file that lies in no configured zone is reported; *)
(* with no zone configured create returns no handler, for every file.      *)
(***************************************************************************)
C5_OutsideZonesNeverReported ==
    /\ (pc # "configured" /\ Len(options.zones) = 0) => ~hasHandler
    /\ (visited /\ ~liesInSomeZone(filename, options.zones)) => reports = << >>

\* an import that a zone around the importer would have reported, met with
\* no zone configured
C5_Witness ==
    /\ visited
    /\ Len(options.zones) = 0
    /\ ~hasHandler
    /\ reports = << >>
    /\ handlerRun(theNode, filename, options, optimizedSharedPatterns,
                  TRUE).reports # << >>


(***************************************************************************)
(* C6: a statement whose specifier resolves to a path that is not absolute *)
(* or does not lie under the project root, by whole segments, is skipped:  *)
(* it is neither analysed nor reported.                                    *)
(***************************************************************************)
C6_OutOfRootSkipped ==
    (visited /\ resolved # << >> /\ ~underRoot(theResolved)) =>
        /\ analysis = << >>
        /\ reports = << >>

(***************************************************************************)
(* C7: a specifier that neither starts with "." nor matches an alias       *)
(* prefix is returned unchanged by resolveAliasedPath and is then always   *)
(* skipped (C7 as the specification states it).                            *)
(***************************************************************************)
matchesAlias(specifier, entry) == startsWith(specifier, stripWildcard(entry.alias))

unmatched(specifier) ==
    /\ ~startsWith(specifier, ".")
    /\ \A i \in 1..Len(options.aliases) : ~matchesAlias(specifier, options.aliases[i])

\* the handler got as far as resolving the specifier of the visited statement
resolvedHere ==
    /\ visited
    /\ hasHandler
    /\ resolved # << >>

C7_UnmatchedAlwaysSkipped ==
    (resolvedHere /\ unmatched(theNode.source)) =>
        /\ theResolved = theNode.source
        /\ analysis = << >>
        /\ reports = << >>

(***************************************************************************)
(* C7, amended: such a specifier is returned unchanged; when it is not an  *)
(* absolute path it is skipped, and it is analysed exactly when it is      *)
(* itself an absolute path that starts with the project root and is not    *)
(* the importer.                                                           *)
(***************************************************************************)
C7_UnmatchedUnchanged ==
    (resolvedHere /\ unmatched(theNode.source)) =>
        /\ theResolved = theNode.source
        /\ ~isAbsolute(theNode.source) => (analysis = << >> /\ reports = << >>)
        /\ (analysis # << >>) <=>
               (/\ isAbsolute(theNode.source)
                /\ startsWith(theNode.source, ProjectRoot)
                /\ absoluteSegments(theNode.source) # absoluteSegments(filename))
        /\ reports # << >> => analysis # << >>

\* a bare package name met with aliases configured, none of which matches
C7_Witness ==
    /\ resolvedHere
    /\ unmatched(theNode.source)
    /\ Len(options.aliases) > 0
    /\ ~isAbsolute(theNode.source)
    /\ theResolved = theNode.source
    /\ reports = << >>

(***************************************************************************)
(* C8: a non-relative specifier is resolved by the first alias, in         *)
(* configuration order, whose stripped prefix is a prefix of it, even if a *)
(* later alias matches a longer prefix: to the project root, then the      *)
(* FIRST candidate target (stripped), then the remainder without its       *)
(* leading separator - the target itself when the remainder is empty.      *)
(* Later candidate targets do not influence the result.                    *)
(***************************************************************************)
firstMatching(specifier) ==
    CHOOSE i \in 1..Len(options.aliases) :
        /\ matchesAlias(specifier, options.aliases[i])
        /\ \A j \in 1..(i - 1) : ~matchesAlias(specifier, options.aliases[j])

\* the path made of the root's, the target's and the remainder's segments
joinedUnderRoot(target, remainder) ==
    sep \o join(normalizeSegments(rootSegments \o split(target, sep)
                                      \o split(remainder, sep), << >>), sep)

expectedAliasResolution(specifier) ==
    LET entry == options.aliases[firstMatching(specifier)]
        rest == substring(specifier, Len(stripWildcard(entry.alias)))
        remainder == IF startsWith(rest, sep) THEN substring(rest, 1) ELSE rest
    IN  joinedUnderRoot(stripWildcard(entry.targets[1]), remainder)

\* the aliases with every candidate target but the first removed
firstTargetsOnly ==
    [ i \in 1..Len(options.aliases) |->
        [ alias |-> options.aliases[i].alias,
          targets |-> << options.aliases[i].targets[1] >> ] ]

aliased(specifier) ==
    /\ ~startsWith(specifier, ".")
    /\ \E i \in 1..Len(options.aliases) : matchesAlias(specifier, options.aliases[i])

C8_FirstAliasFirstTarget ==
    (resolvedHere /\ aliased(theNode.source)) =>
        /\ theResolved = expectedAliasResolution(theNode.source)
        /\ theResolved = resolveAliasedPath(theNode.source, filename,
                                            firstTargetsOnly, ProjectRoot)

\* "@/b/g" where the alias "@" comes before the longer "@/*": the first wins
C8_Witness ==
    /\ resolvedHere
    /\ theNode.source = "@/b/g"
    /\ Len(options.aliases) = 2
    /\ firstMatching(theNode.source) = 1
    /\ matchesAlias(theNode.source, options.aliases[2])
    /\ Len(stripWildcard(options.aliases[2].alias)) >
           Len(stripWildcard(options.aliases[1].alias))
    /\ theResolved = "/p/s/b/b/g"

(***************************************************************************)
(* C9: an aliased specifier and a relative specifier that resolve to the   *)
(* same absolute path get the same analysis and the same verdict and       *)
(* report; so do "@/b/g" under the alias "@/*" -> "s/*" and "../b/g" from  *)
(* s/a/f.                                                                  *)
(***************************************************************************)
runOn(specifier) ==
    handlerRun([ source |-> specifier, importKind |-> "value" ], filename,
               options, optimizedSharedPatterns, isFileInRuleZone)

C9_AliasedLikeRelative ==
    (resolvedHere /\ theNode.importKind = "value" /\ aliased(theNode.source)) =>
        /\ \A r \in RelativeSpecifiers :
               runOn(r).resolved = resolved =>
                   /\ runOn(r).analysis = analysis
                   /\ runOn(r).reports = reports
        /\ (/\ theNode.source = "@/b/g"
            /\ options.aliases[1].alias = "@/*"
            /\ options.aliases[1].targets[1] = "s/*"
            /\ filename = "/p/s/a/f")
           => /\ runOn("../b/g").resolved = resolved
              /\ analysis # << >>
              /\ runOn("../b/g").analysis = analysis
              /\ runOn("../b/g").reports = reports

\* the spec's example, reported in both forms
C9_Witness ==
    /\ resolvedHere
    /\ theNode = [ source |-> "@/b/g", importKind |-> "value" ]
    /\ filename = "/p/s/a/f"
    /\ aliased(theNode.source)
    /\ options.aliases[1].alias = "@/*"
    /\ runOn("../b/g").resolved = resolved
    /\ Len(reports) = 1
    /\ runOn("../b/g").reports = reports

(***************************************************************************)
(* C10: matchesSharedPattern is true exactly when the input is non-empty   *)
(* and some pattern is a folder pattern whose segments are a prefix of the *)
(* input, or a file pattern whose segments are a suffix of it; the answer  *)
(* is the same with and without the _segments cache and for every order of *)
(* the pattern list.                                                       *)
(***************************************************************************)
\* the pattern list without its cache entries
withoutCache(patterns) ==
    [ i \in 1..Len(patterns) |->
        [ pattern |-> patterns[i].pattern, type |-> patterns[i].type ] ]

isSuffix(a, b) == Len(a) <= Len(b) /\ SubSeq(b, Len(b) - Len(a) + 1, Len(b)) = a

somePatternFits(segs, patterns) ==
    /\ Len(segs) > 0
    /\ \E k \in 1..Len(patterns) :
          LET own == split(patterns[k].pattern, "/")
          IN  \/ patterns[k].type = "folder" /\ isPrefix(own, segs)
              \/ patterns[k].type = "file" /\ isSuffix(own, segs)

reordered(patterns, perm) == [ i \in 1..Len(patterns) |-> patterns[perm[i]] ]

C10_MatcherSemantics ==
    matchOutput # << >> =>
        LET segs == matchInput.segmentsToCheck
            given == matchInput.sharedPatterns
            plain == withoutCache(given)
        IN  /\ matchOutput[1] = somePatternFits(segs, plain)
            /\ matchesSharedPattern(segs, plain) = matchOutput[1]
            /\ matchesSharedPattern(segs, optimize(plain)) = matchOutput[1]
            /\ \A perm \in Permutations(1..Len(given)) :
                   matchesSharedPattern(segs, reordered(given, perm)) = matchOutput[1]

\* a cached list whose first pattern is passed over and whose second, a
\* two-segment file pattern, matches the end of a longer input
C10_Witness ==
    /\ matchOutput = << TRUE >>
    /\ matchInput.segmentsToCheck = << "a", "b", "c" >>
    /\ matchInput.sharedPatterns = optimize(<< folder("b/c"), file("b/c") >>)

(***************************************************************************)
(* C11: a folder pattern matches a directory name anywhere in the import   *)
(* path: when the resolved target passes through a directory, at any depth *)
(* below the common ancestor, whose name equals a configured               *)
(* single-segment folder pattern, nothing is reported.                     *)
(***************************************************************************)
\* the directories the target passes through below the common ancestor
directoriesBelowAncestor ==
    LET n == commonPrefixLength(allButLast(importerSegs), allButLast(importedSegs))
    IN  { importedSegs[j] : j \in (n + 1)..(Len(importedSegs) - 1) }

\* the configured folder patterns that name a single directory
singleFolderNames ==
    { options.sharedPatterns[k].pattern : k \in
        { i \in 1..Len(options.sharedPatterns) :
            /\ options.sharedPatterns[i].type = "folder"
            /\ Len(split(options.sharedPatterns[i].pattern, "/")) = 1 } }

C11_FolderMatchesAnywhere ==
    (analysable /\ directoriesBelowAncestor \cap singleFolderNames # { }) =>
        reports = << >>

(***************************************************************************)
(* C12: isCommonAncestorDirectoryShared is true exactly when the common    *)
(* ancestor is non-empty and its last segment equals the pattern string of *)
(* a folder pattern without separator, and then the statement is not       *)
(* reported even when it is a cousin import; a folder pattern of several   *)
(* segments, a file pattern and the empty ancestor never give it.          *)
(***************************************************************************)
\* the deepest directory the importer's and the target's directories share
commonDirectory ==
    SubSeq(importerSegs, 1,
           commonPrefixLength(allButLast(importerSegs), allButLast(importedSegs)))

\* some configured pattern of type t has the pattern string q
configured(t, q) ==
    \E k \in 1..Len(options.sharedPatterns) :
        options.sharedPatterns[k] = [ pattern |-> q, type |-> t ]

C12_SharedAncestorExemption ==
    analysable =>
        LET anc == commonDirectory
            named == /\ Len(anc) > 0
                     /\ configured("folder", anc[Len(anc)])
        IN  /\ theAnalysis.isCommonAncestorDirectoryShared <=> named
            /\ theAnalysis.isCommonAncestorDirectoryShared => reports = << >>
            /\ Len(anc) = 0 => ~theAnalysis.isCommonAncestorDirectoryShared
            /\ (/\ ~named
                /\ Len(anc) > 0
                /\ \/ configured("file", anc[Len(anc)])
                   \/ configured("folder", join(anc, "/")))
               => ~theAnalysis.isCommonAncestorDirectoryShared

\* the cousin import below s/m with the folder pattern "m": exempt, while
\* the target itself matches no pattern
C12_Witness ==
    /\ analysable
    /\ commonDirectory = << "s", "m" >>
    /\ configured("folder", "m")
    /\ theAnalysis.isCousin
    /\ ~theAnalysis.isImportTargetShared
    /\ theAnalysis.isCommonAncestorDirectoryShared
    /\ theNode.source = "../b/g"
    /\ reports = << >>

\* the same import with the file pattern "m" and the folder pattern "s/m":
\* neither names the ancestor, and the import is reported
C12_NotByFileOrPath ==
    /\ analysable
    /\ commonDirectory = << "s", "m" >>
    /\ configured("file", "m")
    /\ configured("folder", "s/m")
    /\ ~theAnalysis.isCommonAncestorDirectoryShared
    /\ Len(reports) = 1

(***************************************************************************)
(* C13: isPathInRuleZone(file, zones, root) is true exactly when, for some *)
(* zone, the file's segments properly extend the segments of the directory *)
(* root/zone.path: whole segments decide, so a directory whose name starts *)
(* like the zone's or like ".." is judged by its whole name, and the zone  *)
(* directory itself is not in the zone.                                    *)
(***************************************************************************)
zoneCallReturned ==
    /\ pc = "returned"
    /\ helperCall.fn = "isPathInRuleZone"

C13_ZoneBySegments ==
    zoneCallReturned =>
        helperResult[1] = liesInSomeZone(helperCall.filePath, helperCall.zones)

(***************************************************************************)
(* C14: classification is stateless.  Whatever handler calls came before,  *)
(* on the same rule instance or on instances for other files, the outcome  *)
(* of every call is the outcome of that statement analysed alone by a      *)
(* fresh instance, and every instance still holds the zones, aliases,      *)
(* patterns, pattern-segment cache and zone flag create gave it.           *)
(***************************************************************************)
\* the statement analysed alone: a fresh instance and a single call
alone(linted, opts, n) == instanceRun(createInstance(opts, linted), n)

C14_Stateless ==
    /\ \A k \in 1..Len(calls) :
          calls[k].run =
              alone(instances[calls[k].instance].filename, options, calls[k].node)
    /\ \A i \in 1..Len(instances) :
          instances[i] = createInstance(options, instances[i].filename)

\* two instances for different files, called in the reverse order of their
\* creation on the same statement, which both report
C14_Witness ==
    /\ Len(instances) = 2
    /\ instances[1].filename # instances[2].filename
    /\ Len(calls) = 2
    /\ calls[1].instance = 2
    /\ calls[2].instance = 1
    /\ calls[1].node = calls[2].node
    /\ calls[1].run.reports # << >>
    /\ calls[2].run.reports # << >>
    /\ calls[1].run.reports # calls[2].run.reports

(***************************************************************************)
(* C15: commonAncestorPathSegments is the longest common prefix of the     *)
(* importer's and the imported path's directory components (the segments   *)
(* of each without its last): as long as the number of equal leading       *)
(* positions, which is the shorter directory depth when nothing differs    *)
(* within it, and empty when either path has no directory component.       *)
(***************************************************************************)
\* the directory components of the importer and of the analysed target
importerDirectories ==
    allButLast(getPathSegmentsRelativeToRoot(filename, ProjectRoot))

importedDirectories ==
    allButLast(getPathSegmentsRelativeToRoot(theResolved, ProjectRoot))

\* the number of leading positions at which two sequences agree
equalLeading(a, b) ==
    LET shorter == IF Len(a) < Len(b) THEN Len(a) ELSE Len(b)
        agree(n) == \A i \in 1..n : a[i] = b[i]
    IN  CHOOSE n \in 0..shorter :
            /\ agree(n)
            /\ n < shorter => a[n + 1] # b[n + 1]

analysed == visited /\ analysis # << >>

C15_AncestorIsLongestCommonPrefix ==
    analysed =>
        LET anc == theAnalysis.commonAncestorPathSegments
            n == equalLeading(importerDirectories, importedDirectories)
            shorter == IF Len(importerDirectories) < Len(importedDirectories)
                       THEN Len(importerDirectories)
                       ELSE Len(importedDirectories)
        IN  /\ Len(anc) = n
            /\ anc = SubSeq(importerDirectories, 1, n)
            /\ anc = SubSeq(importedDirectories, 1, n)
            /\ SubSeq(importerDirectories, 1, shorter) =
                   SubSeq(importedDirectories, 1, shorter) => Len(anc) = shorter
            /\ shorter = 0 => anc = << >>

\* a child import from s/a/f: nothing differs within the shorter depth, 2,
\* and the ancestor is that whole directory
C15_Witness ==
    /\ analysed
    /\ importerDirectories = << "s", "a" >>
    /\ importedDirectories = << "s", "a", "b" >>
    /\ theAnalysis.commonAncestorPathSegments = << "s", "a" >>

(***************************************************************************)
(* C16: generateViolationSuggestions emits together every suggestion that  *)
(* applies: the folder pattern of the ancestor's last segment exactly when *)
(* the ancestor is non-empty, the folder pattern of the segments after the *)
(* ancestor without the last exactly when that leaves a segment, and the   *)
(* file pattern of all segments after the ancestor; the fallback notice    *)
(* alone exactly when none applies, which is when the ancestor is empty    *)
(* and exactly ONE segment follows it.                                     *)
(***************************************************************************)
suggestionsReturned ==
    /\ pc = "returned"
    /\ helperCall.fn = "generateViolationSuggestions"

givenAncestor == helperCall.commonAncestorPathSegments
givenAfter == helperCall.importedSegmentsAfterAncestor
suggested == helperResult[1]

\* the pattern objects among the returned entries
proposals ==
    { [ pattern |-> suggested[i].pattern, type |-> suggested[i].type ] :
        i \in { j \in 1..Len(suggested) : "pattern" \in DOMAIN suggested[j] } }

\* the pattern objects the three suggestions are keyed on, where they apply
ancestorProposals ==
    IF Len(givenAncestor) > 0
    THEN { folder(givenAncestor[Len(givenAncestor)]) } ELSE { }

parentProposals ==
    IF Len(givenAfter) > 1
    THEN { folder(join(allButLast(givenAfter), "/")) } ELSE { }

fileProposal == file(join(givenAfter, "/"))

\* the folder suggestions are emitted exactly when they apply
folderSuggestionsAsStated ==
    { q \in proposals : q.type = "folder" } = ancestorProposals \cup parentProposals

C16_FallbackAtOneSegment ==
    suggestionsReturned =>
        /\ folderSuggestionsAsStated
        /\ Len(givenAfter) > 0 => fileProposal \in proposals
        /\ (suggested = NoSuggestion) <=>
               (Len(givenAncestor) = 0 /\ Len(givenAfter) = 1)

(***************************************************************************)
(* C16, amended: the file pattern is suggested exactly when at least one   *)
(* segment follows the ancestor, and the fallback notice is returned alone *)
(* exactly when the ancestor is empty and NO segment follows it; with an   *)
(* empty ancestor and one segment the file suggestion alone is returned.   *)
(***************************************************************************)
C16_SuggestionsEmitted ==
    suggestionsReturned =>
        /\ folderSuggestionsAsStated
        /\ (fileProposal \in proposals) <=> Len(givenAfter) > 0
        /\ (suggested = NoSuggestion) <=>
               (Len(givenAncestor) = 0 /\ Len(givenAfter) = 0)
        /\ suggested # NoSuggestion =>
               /\ \A i \in 1..Len(suggested) : "pattern" \in DOMAIN suggested[i]
               /\ Len(suggested) = Cardinality(proposals)
               /\ Len(suggested) =
                      (IF Len(givenAncestor) > 0 THEN 1 ELSE 0)
                      + (IF Len(givenAfter) > 1 THEN 1 ELSE 0)
                      + (IF Len(givenAfter) > 0 THEN 1 ELSE 0)
        /\ proposals \subseteq
               ancestorProposals \cup parentProposals \cup { fileProposal }
        /\ (Len(givenAncestor) = 0 /\ Len(givenAfter) = 1) =>
               proposals = { fileProposal }

\* empty ancestor and a single segment after it: the file suggestion alone
C16_Witness ==
    /\ suggestionsReturned
    /\ givenAncestor = << >>
    /\ givenAfter = << "g" >>
    /\ suggested # NoSuggestion
    /\ Len(suggested) = 1
    /\ suggested[1].type = "file"
    /\ suggested[1].pattern = "g"

(***************************************************************************)
(* C17: the suggestions of a report are sound.  For every reported         *)
(* statement, each pattern its suggestions propose - the folder pattern of *)
(* the ancestor's last segment, the folder pattern of the target's parent  *)
(* path after the ancestor, the file pattern of the whole path after the   *)
(* ancestor - silences the report when it alone is added to sharedPatterns *)
(* and the statement is analysed again; and a report never carries the     *)
(* fallback notice.                                                        *)
(***************************************************************************)
reported == visited /\ reports # << >>

\* the configuration with the pattern of a suggestion added
withPattern(q) ==
    [ options EXCEPT !.sharedPatterns =
          Append(@, [ pattern |-> q.pattern, type |-> q.type ]) ]

\* the patterns the report's suggestions should name
expectedProposals ==
    LET anc == theAnalysis.commonAncestorPathSegments
        after == theAnalysis.importedSegmentsAfterAncestor
    IN  (IF Len(anc) > 0 THEN { folder(anc[Len(anc)]) } ELSE { })
            \cup { folder(join(allButLast(after), "/")), file(join(after, "/")) }

C17_SuggestionsSound ==
    reported =>
        LET given == theReport.violationSuggestions
        IN  /\ given # NoSuggestion
            /\ \A i \in 1..Len(given) :
                   /\ "pattern" \in DOMAIN given[i]
                   /\ alone(filename, withPattern(given[i]), theNode).reports = << >>
            /\ { [ pattern |-> given[i].pattern, type |-> given[i].type ] :
                      i \in 1..Len(given) } = expectedProposals

\* a report below s/m with its three suggestions
C17_Witness ==
    /\ reported
    /\ theAnalysis.commonAncestorPathSegments = << "s", "m" >>
    /\ theAnalysis.importedSegmentsAfterAncestor = << "b", "c", "g" >>
    /\ Len(theReport.violationSuggestions) = 3
    /\ theReport.violationSuggestions[1].pattern = "m"
    /\ theReport.violationSuggestions[2].pattern = "b/c"
    /\ theReport.violationSuggestions[3].pattern = "b/c/g"
    /\ alone(filename, withPattern(folder("m")), theNode).reports = << >>

(***************************************************************************)
(* C18: zones constrain only the importer.  For a fixed importer,          *)
(* specifier, alias map and pattern list, every zone configuration whose   *)
(* zone filter admits the importer gives the same resolution, analysis and *)
(* report; the zones the target lies in are never consulted, so a cousin   *)
(* import of an in-root target outside every zone is reported like one     *)
(* inside a zone, the common ancestor possibly lying above every zone,     *)
(* down to the empty ancestor shown as "(project root)".                   *)
(***************************************************************************)
\* the outcome of the statement visited last
outcome == [ resolved |-> resolved, analysis |-> analysis, reports |-> reports ]

\* the statement under the same configuration with other zones
underZones(zones) == alone(filename, [ options EXCEPT !.zones = zones ], theNode)

====
